---- MODULE Spec2Model ----
(***************************************************************************)
(* State-machine model of the CharmeAnnotator library (src/unnamed/        *)
(* part_001) together with the page-level selectDataset of the example     *)
(* page (src/unnamed/part_000).  One action per handler or callback of the *)
(* single-threaded event loop; a remote call is a record that stays in     *)
(* flight until the callback for its response runs.                        *)
(***************************************************************************)
EXTENDS Integers, Sequences, FiniteSets, TLC

\* ---------------------------------------------------------------- bounds
MaxQueries == 2      \* sparql fetches issued in one page load
MaxRecords == 2      \* features in one GeoJSON response
MaxPosts   == 1      \* insert/annotation fetches issued in one page load
MaxLogouts == 2      \* charmeLogout() calls in one page load
MaxRing    == 3      \* points in a drawn ring handed to the geometry encoders

\* ---------------------------------------------------------------- values
Undefined  == "undefined"
Tokens     == {"tok"}
\* (uri, variable) pairs a page offers, as the example page's buttons do
Selections == {<<"u1", "v1">>, <<"u2", "v2">>}

VARIABLES
    token,            \* this.token
    oauthCached,      \* JSO's persisted token store holds a token
    loginInitiated,   \* the provider's authorization redirect was started
    userinfo,         \* token/userinfo fetch: "none" | "pending" | "ok" | "errorJson" | "failed"
    fired,            \* events delivered to listeners, in order
    logoutCalls,      \* number of charmeLogout() calls made
    drawControl,      \* this.drawControl: "undefined" | "added" | "removed"
    drawRegistered,   \* a 'draw:created' listener is registered on the map
    annotationsOn,    \* this.annotationsOn
    annotationsGroup, \* this.annotationsGroup: the overlays it holds
    datasetUri,       \* this.datasetUri
    datasetVar,       \* this.datasetVar
    issued,           \* number of sparql fetches issued
    inflight,         \* sparql fetches whose response has not arrived
    toggleCalls,      \* number of toggleAnnotations() calls made
    tempLayer,        \* the drawn layer is in the temporary featureGroup
    popupOpen,        \* the comment form popup is open
    formState,        \* "none" | "open" | "submitted" | "dismissed"
    drawnFor,         \* bookkeeping: the selection the open form's shape was drawn under
    postsSent,        \* number of insert/annotation fetches issued
    posts,            \* insert/annotation fetches whose response has not arrived
    lastResp,         \* bookkeeping: the sparql response the last step delivered
    lastPost,         \* bookkeeping: how the insert fetch settled in the last step
    lastSel,          \* bookkeeping: the dataset arguments the last step was called with
    pair,             \* bookkeeping: toggleAnnotations() calls in immediate succession
    layer,            \* the drawn layer handed to a geometry encoder
    location,         \* the encoder's result and the encoder that produced it
    ttl,              \* the annotation document built around that result
    bounds,           \* charme.js: map.getBounds(), the viewport of the global map
    query,            \* charme.js: the query text sent by toggleAnnotations()
    logged,           \* charme.js: the query text it built again for console.log
    prevQuery         \* charme.js: the query text sent by the call before

vars == <<token, oauthCached, loginInitiated, userinfo, fired, logoutCalls,
          drawControl, drawRegistered, annotationsOn, annotationsGroup,
          datasetUri, datasetVar, issued, inflight, toggleCalls, tempLayer,
          popupOpen, formState, drawnFor, postsSent, posts, lastResp, lastPost,
          lastSel, pair, layer, location, ttl, bounds, query, logged,
          prevQuery>>

sessionVars == <<token, oauthCached, loginInitiated, userinfo, fired,
                 logoutCalls, drawControl, drawRegistered>>
datasetVars == <<datasetUri, datasetVar>>
toggleVars  == <<annotationsOn, annotationsGroup, issued, inflight, toggleCalls>>
formVars    == <<tempLayer, popupOpen, formState>>
postVars    == <<postsSent, posts>>
encVars     == <<layer, location, ttl>>
queryVars   == <<bounds, query, logged, prevQuery>>

\* pair: "none", "first" after one toggleAnnotations() call, "done" when the
\* call before it was one too; any other handler in between resets it.
NoPair == "none"
NoResp == [qid |-> 0, k |-> 0]
\* drawnFor: <<datasetUri, datasetVar>> as they were at the 'draw:created'
\* event, kept while only dataset selections and the submit click have
\* followed it; any other handler resets it.
NoDrawn == <<"none", "none">>
\* lastSel.via: "annotator" for annotator.setDatasetDetails called directly,
\* "page" for the example page's selectDataset.
NoSel  == [via |-> "none", uri |-> Undefined, var |-> Undefined]
Sel(via, uri, var) == [via |-> via, uri |-> uri, var |-> var]

\* ------------------------------------------------------------ controller
\* The part of the annotator that toggleAnnotations() reads and writes.
ctl == [annotationsOn    |-> annotationsOn,
        annotationsGroup |-> annotationsGroup,
        issued           |-> issued,
        inflight         |-> inflight,
        toggleCalls      |-> toggleCalls]

SetCtl(c) ==
    /\ annotationsOn'    = c.annotationsOn
    /\ annotationsGroup' = c.annotationsGroup
    /\ issued'           = c.issued
    /\ inflight'         = c.inflight
    /\ toggleCalls'      = c.toggleCalls

\* The fetch of toggleAnnotations(): its query text is _getQuery(uri, var),
\* which embeds both arguments verbatim, so the request is identified by
\* them (and numbered by its place in the issue order).
NewQuery(qid, uri, var) == [qid |-> qid, uri |-> uri, var |-> var]

\* toggleAnnotations with annotationsOn set by the response callback instead
\* of by the call itself.
toggleAnnotations_lateOn(c, uri, var) ==
    IF c.annotationsOn
    THEN [c EXCEPT !.annotationsGroup = {},
                   !.annotationsOn    = FALSE,
                   !.toggleCalls      = @ + 1]
    ELSE [c EXCEPT !.inflight    = @ \cup {NewQuery(c.issued + 1, uri, var)},
                   !.issued      = @ + 1,
                   !.toggleCalls = @ + 1]

\* toggleAnnotations without the clearLayers() call.
toggleAnnotations_noClear(c, uri, var) ==
    IF c.annotationsOn
    THEN [c EXCEPT !.annotationsOn = FALSE,
                   !.toggleCalls   = @ + 1]
    ELSE [c EXCEPT !.inflight      = @ \cup {NewQuery(c.issued + 1, uri, var)},
                   !.issued        = @ + 1,
                   !.annotationsOn = TRUE,
                   !.toggleCalls   = @ + 1]

\* CharmeAnnotator.prototype.toggleAnnotations, as a function of the
\* controller state and of the dataset selection it reads.
toggleAnnotations(c, uri, var) ==
    IF c.annotationsOn
    THEN [c EXCEPT !.annotationsGroup = {},
                   !.annotationsOn    = FALSE,
                   !.toggleCalls      = @ + 1]
    ELSE [c EXCEPT !.inflight      = @ \cup {NewQuery(c.issued + 1, uri, var)},
                   !.issued        = @ + 1,
                   !.annotationsOn = TRUE,
                   !.toggleCalls   = @ + 1]

\* "Switch annotations off and on again to refresh": two calls in a row.
refresh(c, uri, var) ==
    toggleAnnotations(toggleAnnotations(c, uri, var), uri, var)

\* Room for n more sparql fetches within the bound.
CanIssue(n) == issued + n <= MaxQueries

\* geoJson that renders the first feature of the response only.
geoJson_firstOnly(q, k) ==
    {[qid |-> q.qid, uri |-> q.uri, var |-> q.var, idx |-> i] :
        i \in 1..(IF k > 1 THEN 1 ELSE k)}

\* L.geoJson(resp, ...): one overlay per feature of the k-feature response
\* to fetch q.
geoJson(q, k) ==
    {[qid |-> q.qid, uri |-> q.uri, var |-> q.var, idx |-> i] : i \in 1..k}

\* Number of overlays currently rendered in annotationsGroup.
OverlayCount == Cardinality(annotationsGroup)

\* ------------------------------------------------------------------ Init
\* State after `new CharmeAnnotator(url, clientId, map)`: the constructor's
\* assignments followed by _init(), for both outcomes of checkToken().
ControllerInit ==
    /\ token \in Tokens \cup {Undefined}
    /\ oauthCached    = (token # Undefined)
    /\ loginInitiated = FALSE
    /\ userinfo       = IF token # Undefined THEN "pending" ELSE "none"
    /\ fired          = << >>
    /\ logoutCalls    = 0
    /\ drawControl    = IF token # Undefined THEN "added" ELSE Undefined
    /\ drawRegistered = (token # Undefined)
    /\ annotationsOn    = FALSE
    /\ annotationsGroup = {}
    /\ datasetUri = Undefined
    /\ datasetVar = Undefined
    /\ issued      = 0
    /\ inflight    = {}
    /\ toggleCalls = 0
    /\ tempLayer  = FALSE
    /\ popupOpen  = FALSE
    /\ formState  = "none"
    /\ drawnFor   = NoDrawn
    /\ postsSent = 0
    /\ posts     = {}
    /\ lastResp  = NoResp
    /\ lastPost  = "none"
    /\ lastSel   = NoSel
    /\ pair      = NoPair

\* ------------------------------------------------------ geometry encoders
\* Coordinates of the points of a drawn layer.
Coords == {0, 1}
LatLngs == [lng : Coords, lat : Coords]

RECURSIVE SeqsUpTo(_, _)
SeqsUpTo(S, n) ==
    IF n = 0 THEN {<< >>}
    ELSE LET shorter == SeqsUpTo(S, n - 1)
         IN shorter \cup {Append(r, x) : r \in {t \in shorter : Len(t) = n - 1},
                                          x \in S}

\* Layers a caller can hand to an encoder: an L.Marker, an L.Polyline (which
\* L.Polygon and L.Rectangle extend) with its ring of points, or a layer of
\* another class (L.Circle).
NoLayer == [kind |-> "none", latlngs |-> << >>]
Layers ==
    {[kind |-> "marker", latlngs |-> <<p>>] : p \in LatLngs}
    \cup {[kind |-> "polyline", latlngs |-> r] : r \in SeqsUpTo(LatLngs, MaxRing)}
    \cup {[kind |-> "circle", latlngs |-> <<p>>] : p \in LatLngs}

\* An encoder's result: the WKT text as its geometry type and the coordinate
\* pairs "lng lat" in the order they are written, `undefined` when the
\* function falls off its end, or the exception it raised.
NoLocation == [by |-> "none", type |-> "none", pairs |-> << >>]
Wkt(type, pairs) == [type |-> type, pairs |-> pairs]
Pair(lng, lat) == <<lng, lat>>

\* The for loop of both encoders: i from length - 1 down to 0, appending
\* latlngs[i]'s pair each time (positions 1..n here).
RECURSIVE ReversedPairs(_, _)
ReversedPairs(latlngs, i) ==
    IF i = 0 THEN << >>
    ELSE <<Pair(latlngs[i].lng, latlngs[i].lat)>>
             \o ReversedPairs(latlngs, i - 1)

\* _getLocationString with the ring closed by the longitude of the last
\* input point and the latitude of the first.
_getLocationString_mixedClosing(l) ==
    IF l.kind = "marker"
    THEN Wkt("POINT", <<Pair(l.latlngs[1].lng, l.latlngs[1].lat)>>)
    ELSE IF l.kind = "polyline"
    THEN LET latlngs == l.latlngs
             n == Len(latlngs)
         IN IF n = 0 THEN Wkt("TypeError", << >>)
            ELSE Wkt("POLYGON",
                     ReversedPairs(latlngs, n)
                         \o <<Pair(latlngs[n].lng, latlngs[1].lat)>>)
    ELSE Wkt(Undefined, << >>)

\* _getLocationString of the library (part_001).  With an empty ring
\* latlngs[length - 1] is undefined and reading its 'lng' raises a TypeError.
_getLocationString(l) ==
    IF l.kind = "marker"
    THEN Wkt("POINT", <<Pair(l.latlngs[1].lng, l.latlngs[1].lat)>>)
    ELSE IF l.kind = "polyline"
    THEN LET latlngs == l.latlngs
             n == Len(latlngs)
         IN IF n = 0 THEN Wkt("TypeError", << >>)
            ELSE Wkt("POLYGON",
                     ReversedPairs(latlngs, n)
                         \o <<Pair(latlngs[n].lng, latlngs[n].lat)>>)
    ELSE Wkt(Undefined, << >>)

\* getLocationString of charme.js: the same loop, closed with
\* _latlngs[length - 1]['lng'] and _latlngs[0]['lat'].
getLocationString(l) ==
    IF l.kind = "marker"
    THEN Wkt("POINT", <<Pair(l.latlngs[1].lng, l.latlngs[1].lat)>>)
    ELSE IF l.kind = "polyline"
    THEN LET latlngs == l.latlngs
             n == Len(latlngs)
         IN IF n = 0 THEN Wkt("TypeError", << >>)
            ELSE Wkt("POLYGON",
                     ReversedPairs(latlngs, n)
                         \o <<Pair(latlngs[n].lng, latlngs[1].lat)>>)
    ELSE Wkt(Undefined, << >>)

Located(by, w) == [by |-> by, type |-> w.type, pairs |-> w.pairs]

\* _getTurtle(datasetUri, datasetVar, location, comment): the Turtle document
\* as the three values it embeds verbatim besides the comment text: the
\* dataset URI (oa:hasSource), the variable (charme:hasInternalName) and the
\* location string (geo:asWKT); an undefined location is embedded as the
\* text "undefined".
NoTtl == [built |-> FALSE]
_getTurtle(uri, var, loc) ==
    [built |-> TRUE, hasSource |-> uri, hasInternalName |-> var,
     asWKT |-> Wkt(loc.type, loc.pairs)]

\* No layer has been drawn and nothing encoded.
EncoderIdle ==
    /\ layer    = NoLayer
    /\ location = NoLocation
    /\ ttl      = NoTtl

\* --------------------------------------------- viewport query (charme.js)
\* Viewports of the prototype's global map: south-west and north-east
\* corners, the latter strictly beyond the former on both axes.
BoundCoords == {0, 1, 2, 3}
NoBounds == [_southWest |-> [lng |-> 0, lat |-> 0],
             _northEast |-> [lng |-> 0, lat |-> 0]]
Bounds ==
    {b \in [_southWest : [lng : BoundCoords, lat : BoundCoords],
            _northEast : [lng : BoundCoords, lat : BoundCoords]] :
        /\ b._southWest.lng < b._northEast.lng
        /\ b._southWest.lat < b._northEast.lat}

\* 'LIMIT 100', the last clause of the query text.
QueryLimit == 100

\* A query text as what varies in it: the coordinate pairs "x y" of the
\* POLYGON in its FILTER, in the order written, and the number of its LIMIT
\* clause; for records the bounds the text was built under.
NoQuery == [built |-> FALSE]
QueryText(b, ring, limit) ==
    [built |-> TRUE, bounds |-> b, ring |-> ring, limit |-> limit]

\* getQuery with the ring left open: the fifth vertex is not written.
getQuery_openRing(b) ==
    LET maxx == b._northEast.lng
        maxy == b._northEast.lat
        minx == b._southWest.lng
        miny == b._southWest.lat
    IN QueryText(b, <<Pair(minx, miny), Pair(minx, maxy), Pair(maxx, maxy),
                      Pair(maxx, miny)>>, QueryLimit)

\* getQuery(mapObj) of charme.js.  It reads the global map's bounds, not its
\* argument; both call sites pass the global map.
getQuery(b) ==
    LET maxx == b._northEast.lng
        maxy == b._northEast.lat
        minx == b._southWest.lng
        miny == b._southWest.lat
    IN QueryText(b, <<Pair(minx, miny), Pair(minx, maxy), Pair(maxx, maxy),
                      Pair(maxx, miny), Pair(minx, miny)>>, QueryLimit)

\* The prototype's map has not been created and no query built.
QueryIdle ==
    /\ bounds    = NoBounds
    /\ query     = NoQuery
    /\ logged    = NoQuery
    /\ prevQuery = NoQuery

\* ------------------------------------------------------------------ Init
Init ==
    /\ ControllerInit
    /\ EncoderIdle
    /\ QueryIdle

\* --------------------------------------------------------------- actions
\* One call of annotator.toggleAnnotations() (the page's toggle button).
Toggle ==
    /\ annotationsOn \/ CanIssue(1)
    /\ SetCtl(toggleAnnotations(ctl, datasetUri, datasetVar))
    /\ pair' = IF pair = "none" THEN "first" ELSE "done"
    /\ UNCHANGED encVars
    /\ UNCHANGED queryVars
    /\ lastResp' = NoResp
    /\ lastPost' = "none"
    /\ drawnFor' = NoDrawn
    /\ lastSel'  = NoSel
    /\ UNCHANGED <<sessionVars, datasetVars, formVars, postVars>>

\* The sparql fetch q resolves with a feature collection of k features: the
\* second then() callback of toggleAnnotations.
QueryResponse(q, k) ==
    /\ q \in inflight
    /\ inflight' = inflight \ {q}
    /\ annotationsGroup' = annotationsGroup \cup geoJson(q, k)
    /\ lastResp' = [qid |-> q.qid, k |-> k]
    /\ lastPost' = "none"
    /\ drawnFor' = NoDrawn
    /\ lastSel'  = NoSel
    /\ pair' = IF pair = "done" THEN pair ELSE NoPair
    /\ UNCHANGED encVars
    /\ UNCHANGED queryVars
    /\ UNCHANGED <<sessionVars, datasetVars, formVars, postVars,
                   annotationsOn, issued, toggleCalls>>

\* QueryFailure with a catch() callback that turns annotations off again.
QueryFailure_turnsOff(q) ==
    /\ q \in inflight
    /\ inflight' = inflight \ {q}
    /\ annotationsOn' = FALSE
    /\ lastResp' = NoResp
    /\ lastPost' = "none"
    /\ drawnFor' = NoDrawn
    /\ lastSel'  = NoSel
    /\ pair' = IF pair = "done" THEN pair ELSE NoPair
    /\ UNCHANGED encVars
    /\ UNCHANGED queryVars
    /\ UNCHANGED <<sessionVars, datasetVars, formVars, postVars,
                   annotationsGroup, issued, toggleCalls>>

\* The sparql fetch q rejects, or its body is not JSON: neither then()
\* callback has a rejection handler, so nothing else happens.
QueryFailure(q) ==
    /\ q \in inflight
    /\ inflight' = inflight \ {q}
    /\ lastResp' = NoResp
    /\ lastPost' = "none"
    /\ drawnFor' = NoDrawn
    /\ lastSel'  = NoSel
    /\ pair' = IF pair = "done" THEN pair ELSE NoPair
    /\ UNCHANGED encVars
    /\ UNCHANGED queryVars
    /\ UNCHANGED <<sessionVars, datasetVars, formVars, postVars,
                   annotationsOn, annotationsGroup, issued, toggleCalls>>

\* setDatasetDetails that only fills in a selection not made yet.
SetDatasetDetails_keepsFirst(uri, variable) ==
    /\ datasetUri' = IF datasetUri = Undefined THEN uri ELSE datasetUri
    /\ datasetVar' = IF datasetVar = Undefined THEN variable ELSE datasetVar
    /\ lastResp' = NoResp
    /\ lastPost' = "none"
    /\ drawnFor' = drawnFor
    /\ lastSel'  = Sel("annotator", uri, variable)
    /\ pair' = NoPair
    /\ UNCHANGED encVars
    /\ UNCHANGED queryVars
    /\ UNCHANGED <<sessionVars, toggleVars, formVars, postVars>>

\* CharmeAnnotator.prototype.setDatasetDetails(uri, variable).
SetDatasetDetails(uri, variable) ==
    /\ datasetUri' = uri
    /\ datasetVar' = variable
    /\ lastResp' = NoResp
    /\ lastPost' = "none"
    /\ drawnFor' = drawnFor
    /\ lastSel'  = Sel("annotator", uri, variable)
    /\ pair' = NoPair
    /\ UNCHANGED encVars
    /\ UNCHANGED queryVars
    /\ UNCHANGED <<sessionVars, toggleVars, formVars, postVars>>

\* selectDataset with the two toggles placed before setDatasetDetails: the
\* query is built from the selection being replaced.
SelectDataset_staleQuery(uri, variable) ==
    /\ annotationsOn => CanIssue(1)
    /\ datasetUri' = uri
    /\ datasetVar' = variable
    /\ IF annotationsOn
       THEN SetCtl(refresh(ctl, datasetUri, datasetVar))
       ELSE UNCHANGED toggleVars
    /\ lastResp' = NoResp
    /\ lastPost' = "none"
    /\ drawnFor' = drawnFor
    /\ lastSel'  = Sel("page", uri, variable)
    /\ pair' = NoPair
    /\ UNCHANGED encVars
    /\ UNCHANGED queryVars
    /\ UNCHANGED <<sessionVars, formVars, postVars>>

\* The example page's selectDataset(datasetUri, variable, annotator, map):
\* setDatasetDetails, the WMS layer swap (page glue, no annotator state),
\* then two toggleAnnotations() calls when annotations are on.
SelectDataset(uri, variable) ==
    /\ annotationsOn => CanIssue(1)
    /\ datasetUri' = uri
    /\ datasetVar' = variable
    /\ IF annotationsOn
       THEN SetCtl(refresh(ctl, uri, variable))
       ELSE UNCHANGED toggleVars
    /\ lastResp' = NoResp
    /\ lastPost' = "none"
    /\ drawnFor' = drawnFor
    /\ lastSel'  = Sel("page", uri, variable)
    /\ pair' = NoPair
    /\ UNCHANGED encVars
    /\ UNCHANGED queryVars
    /\ UNCHANGED <<sessionVars, formVars, postVars>>

\* charmeLogin with a getToken callback that stores the token it is handed
\* once the flow it started completes.
CharmeLogin_storesToken ==
    /\ loginInitiated' = (loginInitiated \/ ~oauthCached)
    /\ token' = IF oauthCached THEN token ELSE CHOOSE t \in Tokens : TRUE
    /\ lastResp' = NoResp
    /\ lastPost' = "none"
    /\ drawnFor' = NoDrawn
    /\ lastSel'  = NoSel
    /\ pair' = NoPair
    /\ UNCHANGED encVars
    /\ UNCHANGED queryVars
    /\ UNCHANGED <<oauthCached, userinfo, fired, logoutCalls,
                   drawControl, drawRegistered, datasetVars, toggleVars,
                   formVars, postVars>>

\* CharmeAnnotator.prototype.charmeLogin: JSO's getToken hands a cached
\* token to the (empty) callback, and otherwise starts the authorization
\* redirect.
CharmeLogin ==
    /\ loginInitiated' = (loginInitiated \/ ~oauthCached)
    /\ lastResp' = NoResp
    /\ lastPost' = "none"
    /\ drawnFor' = NoDrawn
    /\ lastSel'  = NoSel
    /\ pair' = NoPair
    /\ UNCHANGED encVars
    /\ UNCHANGED queryVars
    /\ UNCHANGED <<token, oauthCached, userinfo, fired, logoutCalls,
                   drawControl, drawRegistered, datasetVars, toggleVars,
                   formVars, postVars>>

\* An event as its listeners see it: fire() calls them synchronously, so
\* they observe the token as it is at the fire() statement.
Event(name, tok, details) == [name |-> name, token |-> tok, details |-> details]

\* charmeLogout with fire('logout') placed before the token is cleared.
CharmeLogout_fireFirst ==
    /\ logoutCalls < MaxLogouts
    /\ logoutCalls' = logoutCalls + 1
    /\ oauthCached' = FALSE
    /\ fired'       = Append(fired, Event("logout", token, "none"))
    /\ token'       = Undefined
    /\ drawControl' = IF drawControl = "added" THEN "removed" ELSE drawControl
    /\ lastResp'    = NoResp
    /\ lastPost'    = "none"
    /\ drawnFor' = NoDrawn
    /\ lastSel'     = NoSel
    /\ pair'        = NoPair
    /\ UNCHANGED encVars
    /\ UNCHANGED queryVars
    /\ UNCHANGED <<loginInitiated, userinfo, drawRegistered, datasetVars,
                   toggleVars, formVars, postVars>>

\* CharmeAnnotator.prototype.charmeLogout: wipeTokens, clear the token, fire
\* 'logout', remove the draw control.  When _init found no token there is no
\* draw control and map.removeControl(undefined) raises a TypeError; that is
\* the last statement, so the three before it have run by then.
CharmeLogout ==
    /\ logoutCalls < MaxLogouts
    /\ logoutCalls' = logoutCalls + 1
    /\ oauthCached' = FALSE
    /\ token'       = Undefined
    /\ fired'       = Append(fired, Event("logout", token', "none"))
    /\ drawControl' = IF drawControl = "added" THEN "removed" ELSE drawControl
    /\ lastResp'    = NoResp
    /\ lastPost'    = "none"
    /\ drawnFor' = NoDrawn
    /\ lastSel'     = NoSel
    /\ pair'        = NoPair
    /\ UNCHANGED encVars
    /\ UNCHANGED queryVars
    /\ UNCHANGED <<loginInitiated, userinfo, drawRegistered, datasetVars,
                   toggleVars, formVars, postVars>>

\* UserInfoResponse with the fire('login', ...) statement left out.
UserInfoResponse_noFire(outcome) ==
    /\ userinfo = "pending"
    /\ userinfo' = IF outcome = "fail" THEN "failed" ELSE outcome
    /\ lastResp' = NoResp
    /\ lastPost' = "none"
    /\ drawnFor' = NoDrawn
    /\ lastSel'  = NoSel
    /\ pair' = NoPair
    /\ UNCHANGED encVars
    /\ UNCHANGED queryVars
    /\ UNCHANGED <<token, oauthCached, loginInitiated, logoutCalls, fired,
                   drawControl, drawRegistered, datasetVars, toggleVars,
                   formVars, postVars>>

\* The token/userinfo fetch of _init settles.  fetch() resolves for every
\* HTTP response, so a non-2xx answer with a JSON body ("errorJson") also
\* reaches the callback that fires 'login'; a network failure or a body that
\* is not JSON ("fail") rejects, and no rejection handler is attached.
UserInfoOutcomes == {"ok", "errorJson", "fail"}

UserInfoResponse(outcome) ==
    /\ userinfo = "pending"
    /\ userinfo' = IF outcome = "fail" THEN "failed" ELSE outcome
    /\ fired' = IF outcome = "fail" THEN fired
                ELSE Append(fired, Event("login", token,
                                   IF outcome = "ok" THEN "user" ELSE "error"))
    /\ lastResp' = NoResp
    /\ lastPost' = "none"
    /\ drawnFor' = NoDrawn
    /\ lastSel'  = NoSel
    /\ pair' = NoPair
    /\ UNCHANGED encVars
    /\ UNCHANGED queryVars
    /\ UNCHANGED <<token, oauthCached, loginInitiated, logoutCalls,
                   drawControl, drawRegistered, datasetVars, toggleVars,
                   formVars, postVars>>

\* The 'draw:created' listener registered by _init: add the drawn layer to
\* the temporary featureGroup and open the comment form over it.  The event
\* comes from the draw control's toolbar, so the control is on the map, and a
\* shape is drawn by clicking on the map, which closes an open popup, so no
\* form is open when the event arrives.
DrawCreated ==
    /\ drawRegistered
    /\ drawControl = "added"
    /\ ~popupOpen
    /\ tempLayer'  = TRUE
    /\ popupOpen'  = TRUE
    /\ formState'  = "open"
    /\ lastResp' = NoResp
    /\ lastPost' = "none"
    /\ drawnFor' = <<datasetUri, datasetVar>>
    /\ lastSel'  = NoSel
    /\ pair' = NoPair
    /\ UNCHANGED encVars
    /\ UNCHANGED queryVars
    /\ UNCHANGED <<sessionVars, datasetVars, toggleVars, postVars>>

\* The 'popupclose' listener: remove the temporary layer.
PopupClose ==
    /\ popupOpen
    /\ tempLayer'  = FALSE
    /\ popupOpen'  = FALSE
    /\ formState'  = IF formState = "open" THEN "dismissed" ELSE formState
    /\ lastResp' = NoResp
    /\ lastPost' = "none"
    /\ drawnFor' = NoDrawn
    /\ lastSel'  = NoSel
    /\ pair' = NoPair
    /\ UNCHANGED encVars
    /\ UNCHANGED queryVars
    /\ UNCHANGED <<sessionVars, datasetVars, toggleVars, postVars>>

\* The submit listener with a bound jso: getToken only schedules its
\* callback, and the listener goes on to the fetch.
SubmitThrows_jsoBound(tok) == FALSE

\* The submit listener's `if (!that.token) { jso.getToken(...) }`: no binding
\* named jso exists (the OAuth object is this.charmeOAuth, the factory's
\* parameters are L and JSO), so evaluating it raises a ReferenceError and
\* the listener ends there.
SubmitThrows(tok) == tok = Undefined

\* The insert/annotation fetch of the submit listener: the Authorization
\* header is built from that.token, the body by _getTurtle from
\* that.datasetUri, that.datasetVar and the drawn layer's location string
\* (a function of the layer alone, which reads no annotator state).
NewPost(pid, tok, uri, var) ==
    [pid |-> pid, token |-> tok, uri |-> uri, var |-> var]

\* The submit listener with jso bound to an object whose getToken() hands
\* its callback a token at once: `that.token = tkn.access_token` runs.
SubmitClick_storesToken ==
    /\ popupOpen
    /\ formState' = "submitted"
    /\ token' = IF token = Undefined THEN CHOOSE t \in Tokens : TRUE ELSE token
    /\ lastResp' = NoResp
    /\ lastPost' = "none"
    /\ drawnFor' = drawnFor
    /\ lastSel'  = NoSel
    /\ pair' = NoPair
    /\ UNCHANGED encVars
    /\ UNCHANGED queryVars
    /\ postsSent < MaxPosts
    /\ postsSent' = postsSent + 1
    /\ posts' = posts \cup {NewPost(postsSent + 1, token', datasetUri,
                                    datasetVar)}
    /\ tempLayer'  = FALSE
    /\ popupOpen'  = FALSE
    /\ UNCHANGED <<oauthCached, loginInitiated, userinfo, fired, logoutCalls,
                   drawControl, drawRegistered, datasetVars, toggleVars>>

\* The submit listener with the dataset selection captured by the
\* 'draw:created' listener's closure instead of read from the annotator at
\* the click.
SubmitClick_drawTimeSelection ==
    /\ popupOpen
    /\ formState' = "submitted"
    /\ lastResp' = NoResp
    /\ lastPost' = "none"
    /\ drawnFor' = drawnFor
    /\ lastSel'  = NoSel
    /\ pair' = NoPair
    /\ UNCHANGED encVars
    /\ UNCHANGED queryVars
    /\ IF SubmitThrows(token)
       THEN UNCHANGED <<tempLayer, popupOpen, postVars>>
       ELSE /\ postsSent < MaxPosts
            /\ postsSent' = postsSent + 1
            /\ posts' = posts \cup
                  {IF drawnFor = NoDrawn
                   THEN NewPost(postsSent + 1, token, datasetUri, datasetVar)
                   ELSE NewPost(postsSent + 1, token, drawnFor[1],
                                drawnFor[2])}
            /\ tempLayer'  = FALSE
            /\ popupOpen'  = FALSE
    /\ UNCHANGED <<sessionVars, datasetVars, toggleVars>>

\* The click listener of the form's submit button.
SubmitClick ==
    /\ popupOpen
    /\ formState' = "submitted"
    /\ lastResp' = NoResp
    /\ lastPost' = "none"
    /\ drawnFor' = drawnFor
    /\ lastSel'  = NoSel
    /\ pair' = NoPair
    /\ UNCHANGED encVars
    /\ UNCHANGED queryVars
    /\ IF SubmitThrows(token)
       THEN UNCHANGED <<tempLayer, popupOpen, postVars>>
       ELSE /\ postsSent < MaxPosts
            /\ postsSent' = postsSent + 1
            /\ posts' = posts \cup {NewPost(postsSent + 1, token, datasetUri,
                                            datasetVar)}
            \* featureGroup.removeLayer(drawEvent.layer) closes its popup
            /\ tempLayer'  = FALSE
            /\ popupOpen'  = FALSE
    /\ UNCHANGED <<sessionVars, datasetVars, toggleVars>>

\* The insert/annotation fetch p settles.  fetch() resolves for every HTTP
\* response ("ok" and "httpError"), which runs the then() callback; only a
\* network failure ("netfail") runs the catch() callback.
PostOutcomes == {"ok", "httpError", "netfail"}

PostResponse(p, outcome) ==
    /\ p \in posts
    /\ posts' = posts \ {p}
    /\ IF outcome # "netfail" /\ annotationsOn
       THEN /\ CanIssue(1)
            /\ SetCtl(refresh(ctl, datasetUri, datasetVar))
       ELSE UNCHANGED toggleVars
    /\ lastResp' = NoResp
    /\ lastPost' = outcome
    /\ drawnFor' = NoDrawn
    /\ lastSel'  = NoSel
    /\ pair' = NoPair
    /\ UNCHANGED encVars
    /\ UNCHANGED queryVars
    /\ UNCHANGED <<sessionVars, datasetVars, formVars, postsSent>>

Next ==
    \/ Toggle
    \/ \E q \in inflight, k \in 0..MaxRecords : QueryResponse(q, k)
    \/ \E q \in inflight : QueryFailure(q)
    \/ \E s \in Selections : SetDatasetDetails(s[1], s[2])
    \/ \E s \in Selections : SelectDataset(s[1], s[2])
    \/ CharmeLogin
    \/ CharmeLogout
    \/ \E o \in UserInfoOutcomes : UserInfoResponse(o)
    \/ DrawCreated
    \/ PopupClose
    \/ SubmitClick
    \/ \E p \in posts, o \in PostOutcomes : PostResponse(p, o)

Spec == Init /\ [][Next]_vars

\* ------------------------------------------- the geometry encoders alone
\* Every layer of Layers is handed to one of the two encoders, once; the
\* annotator plays no part and stays as constructed.
EncodeInit ==
    /\ ControllerInit
    /\ token = Undefined
    /\ layer \in Layers
    /\ location = NoLocation
    /\ ttl = NoTtl
    /\ QueryIdle

EncodeLibrary ==
    /\ location = NoLocation
    /\ location' = Located("_getLocationString", _getLocationString(layer))
    /\ UNCHANGED <<sessionVars, datasetVars, toggleVars, formVars, postVars,
                   lastResp, lastPost, lastSel, pair, drawnFor, layer, ttl,
                   queryVars>>

EncodePrototype ==
    /\ location = NoLocation
    /\ location' = Located("getLocationString", getLocationString(layer))
    /\ UNCHANGED <<sessionVars, datasetVars, toggleVars, formVars, postVars,
                   lastResp, lastPost, lastSel, pair, drawnFor, layer, ttl,
                   queryVars>>

\* The submit listener's next statement after the library encoder has
\* returned: ttl = _getTurtle(that.datasetUri, that.datasetVar, location,
\* comment).  An encoder that raised has ended the listener before it.
BuildTurtle ==
    /\ location.by = "_getLocationString"
    /\ location.type # "TypeError"
    /\ ttl = NoTtl
    /\ ttl' = _getTurtle(datasetUri, datasetVar, location)
    /\ UNCHANGED <<sessionVars, datasetVars, toggleVars, formVars, postVars,
                   lastResp, lastPost, lastSel, pair, drawnFor, layer, location,
                   queryVars>>

EncodeNext == EncodeLibrary \/ EncodePrototype \/ BuildTurtle

SpecEncode == EncodeInit /\ [][EncodeNext]_vars

\* --------------------------------------------- the viewport query alone
\* The prototype page of charme.js: the user moves the map and toggles
\* annotations; the library's annotator plays no part.
QueryInit ==
    /\ ControllerInit
    /\ token = Undefined
    /\ EncoderIdle
    /\ bounds \in Bounds
    /\ query     = NoQuery
    /\ logged    = NoQuery
    /\ prevQuery = NoQuery

\* The user pans or zooms the map to another viewport.
MoveMap ==
    /\ bounds' \in Bounds \ {bounds}
    /\ UNCHANGED <<sessionVars, datasetVars, toggleVars, formVars, postVars,
                   lastResp, lastPost, lastSel, pair, drawnFor, encVars, query, logged,
                   prevQuery>>

\* toggleAnnotations() of charme.js: getQuery(map) for the request's
\* parameters, and getQuery(map) once more for console.log.
PrototypeToggle ==
    /\ query'     = getQuery(bounds)
    /\ logged'    = getQuery(bounds)
    /\ prevQuery' = query
    /\ UNCHANGED <<sessionVars, datasetVars, toggleVars, formVars, postVars,
                   lastResp, lastPost, lastSel, pair, drawnFor, encVars, bounds>>

QueryNext == MoveMap \/ PrototypeToggle

SpecQuery == QueryInit /\ [][QueryNext]_vars

\* ------------------------------------------------------------ properties
TypeOK ==
    /\ token \in Tokens \cup {Undefined}
    /\ annotationsOn \in BOOLEAN
    /\ issued \in 0..MaxQueries
    /\ postsSent \in 0..MaxPosts
    /\ logoutCalls \in 0..MaxLogouts
    /\ formState \in {"none", "open", "submitted", "dismissed"}
    /\ pair \in {"none", "first", "done"}

CurrentSelection(r) == r.uri = datasetUri /\ r.var = datasetVar

\* C1: whenever annotations are off (annotationsOn = FALSE) no overlay is
\* rendered in annotationsGroup; in particular the response to a query
\* issued by a toggle-on renders nothing when it arrives after the toggle-off.
C1_NothingRenderedWhileOff == ~annotationsOn => annotationsGroup = {}

\* C2: the overlays rendered in annotationsGroup come from at most one query
\* response at any time.
C2_AtMostOneResponseRendered ==
    \A o1, o2 \in annotationsGroup : o1.qid = o2.qid

\* C3: the response to a query built from a dataset selection A that is no
\* longer the current one adds no overlays once a later query has been issued
\* for the current selection B.
C3_StaleDatasetResponseIgnored ==
    [][\A q \in inflight :
         ( /\ q \notin inflight'
           /\ q.uri # Undefined
           /\ ~CurrentSelection(q)
           /\ \E r \in inflight \cup annotationsGroup :
                  r.qid > q.qid /\ CurrentSelection(r) )
         => ~\E o \in annotationsGroup' : o.qid = q.qid]_vars

\* C4: every charmeLogout() call, whatever the state it is made in, leaves
\* the token absent and fires exactly one 'logout' event, delivered within
\* the call to listeners that already see the token absent.
C4_LogoutClearsThenFiresOnce ==
    [][logoutCalls' # logoutCalls =>
         /\ logoutCalls' = logoutCalls + 1
         /\ token' = Undefined
         /\ fired' = Append(fired, Event("logout", Undefined, "none"))]_vars

\* C4 witness: logout was called repeatedly, the first time with a token.
C4_Witness ==
    /\ logoutCalls = 2
    /\ token = Undefined
    /\ drawControl = "removed"
    /\ Len(SelectSeq(fired, LAMBDA e : e.name = "logout")) = 2

C6_ToggleOnIsImmediate ==
    [][ /\ (toggleCalls' = toggleCalls + 1 /\ ~annotationsOn) =>
              (annotationsOn' /\ \E q \in inflight' : q.qid = issued')
        /\ toggleCalls' = toggleCalls => annotationsOn' = annotationsOn ]_vars

\* C6 witness: annotations are on while the query of the toggle-on is still
\* in flight.
C6_Witness ==
    /\ annotationsOn
    /\ toggleCalls = 1
    /\ \E q \in inflight : q.qid = issued

\* C7: a toggleAnnotations() call made while annotations are on empties
\* annotationsGroup and turns them off, issues no request, and leaves the
\* dataset selection and the token unchanged.
C7_ToggleOffClearsLocally ==
    [][(toggleCalls' = toggleCalls + 1 /\ annotationsOn) =>
         /\ annotationsGroup' = {}
         /\ ~annotationsOn'
         /\ issued' = issued
         /\ inflight' = inflight
         /\ UNCHANGED <<datasetUri, datasetVar, token, postsSent, posts>>]_vars

\* C7 witness: annotations were turned off again after a toggle-on whose
\* response had been rendered.
C7_Witness ==
    /\ ~annotationsOn
    /\ toggleCalls = 2
    /\ pair = "first"
    /\ annotationsGroup = {}
    /\ inflight = {}
    /\ datasetUri # Undefined
    /\ token # Undefined

\* C8: a toggleAnnotations() call made while annotations are off issues
\* exactly one query, built from the dataset selection current at the call;
\* when the k-feature response to the latest query arrives while annotations
\* are on and the selection is still the one it was built from, exactly k
\* overlays are added, one per feature.
C8_OneQueryAndOneOverlayPerRecord ==
    [][ /\ (toggleCalls' = toggleCalls + 1 /\ ~annotationsOn) =>
              /\ issued' = issued + 1
              /\ inflight' = inflight \cup
                     {NewQuery(issued + 1, datasetUri, datasetVar)}
        /\ \A q \in inflight :
              ( /\ lastResp'.qid = q.qid
                /\ q \notin inflight'
                /\ annotationsOn
                /\ q.qid = issued
                /\ CurrentSelection(q) )
              => /\ annotationsGroup \subseteq annotationsGroup'
                 /\ Cardinality(annotationsGroup' \ annotationsGroup)
                        = lastResp'.k
                 /\ \A i \in 1..lastResp'.k :
                        \E o \in annotationsGroup' \ annotationsGroup :
                            o.qid = q.qid /\ o.idx = i ]_vars

\* C8 witness: the response to the only query issued arrived with
\* MaxRecords features, which are all that is rendered.
C8_Witness ==
    /\ annotationsOn
    /\ issued = 1
    /\ lastResp = [qid |-> 1, k |-> MaxRecords]
    /\ OverlayCount = MaxRecords
    /\ \A o \in annotationsGroup : CurrentSelection(o)

\* C9: after two toggleAnnotations() calls in immediate succession, once
\* every query response has arrived, the overlays rendered are those a single
\* toggle-on renders: the ones of the response to the pair's own query.
C9_TogglePairAsSingleToggleOn ==
    (pair = "done" /\ inflight = {}) =>
        \A o \in annotationsGroup : o.qid = issued

\* C10: no state has the comment form finished (submitted or dismissed) with
\* the temporary overlay still on the map.
C10_TempOverlayRemovedWhenFormFinished ==
    formState \in {"submitted", "dismissed"} => ~tempLayer

\* C11: when an insert/annotation request settles, a successful submission
\* with annotations on refreshes them (overlays cleared, exactly one new
\* query, on afterwards), a successful one with annotations off issues no
\* query and stays off, and a failed one (network failure or non-2xx
\* response) triggers no refresh at all.
C11_RefreshOnlyAfterSuccessfulSubmission ==
    [][lastPost' # "none" =>
         IF lastPost' = "ok"
         THEN IF annotationsOn
              THEN /\ annotationsGroup' = {}
                   /\ issued' = issued + 1
                   /\ annotationsOn'
              ELSE /\ issued' = issued
                   /\ inflight' = inflight
                   /\ ~annotationsOn'
         ELSE UNCHANGED toggleVars]_vars

\* C12: no toggle-on query and no annotation submission is ever issued
\* with the dataset URI or the dataset variable undefined.
C12_NoRequestWithoutDataset ==
    \A r \in inflight \cup posts : r.uri # Undefined /\ r.var # Undefined

\* The 'login' events fired so far.
LoginEvents == {i \in DOMAIN fired : fired[i].name = "login"}

\* C13: when _init finds a cached token the token is stored at once
\* (LoggedIn in the initial state, lookup pending); the step in which the
\* user-info lookup succeeds fires 'login' with the fetched user details, and
\* that is the only 'login' event of the page load; when _init found no
\* token no 'login' event is ever fired.
C13_LoginFiredOnceAfterCachedToken ==
    /\ (oauthCached => token # Undefined /\ userinfo = "pending")
    /\ (~oauthCached => token = Undefined /\ userinfo = "none")
    /\ [][/\ (userinfo = "pending" /\ userinfo' = "ok") =>
                /\ fired' = Append(fired, Event("login", token, "user"))
                /\ Cardinality(LoginEvents') = 1
          /\ userinfo = "ok" => LoginEvents' = LoginEvents
          /\ ~drawRegistered' => LoginEvents' = {}]_vars

\* C13: the lookup issued for a cached token has succeeded and its one
\* 'login' event, carrying the user details, has been fired.
C13_Witness ==
    /\ drawRegistered
    /\ userinfo = "ok"
    /\ Cardinality(LoginEvents) = 1
    /\ \E i \in LoginEvents : fired[i].details = "user"

\* C14: the step in which the user-info lookup issued by _init fails (the
\* request fails, or the node answers with an error status) keeps the token,
\* fires no 'login' event and leaves the draw control and its listener in
\* place.
C14_FailedLookupKeepsTokenFiresNothing ==
    [][(userinfo = "pending" /\ userinfo' \in {"errorJson", "failed"}) =>
         UNCHANGED <<token, fired, drawControl, drawRegistered>>]_vars

\* C15: a charmeLogin() call that starts the provider's authorization flow
\* sets no token, fires no event, issues no request and leaves visibility,
\* the dataset selection and the overlays as they were; no step of a page
\* load ever stores a token (the only change the token sees is its removal),
\* so LoggedIn is reached only by the cached-token check of _init.
C15_LoginOnlyInitiatesFlow ==
    [][/\ loginInitiated' # loginInitiated =>
              UNCHANGED <<token, fired, datasetVars, toggleVars, postVars,
                          formVars, drawControl, drawRegistered>>
       /\ token' # token => token' = Undefined]_vars

\* C15: the authorization flow has been started by charmeLogin() on a page
\* that found no cached token; the session is still logged out and no
\* 'login' event has been fired.
C15_Witness ==
    /\ loginInitiated
    /\ token = Undefined
    /\ LoginEvents = {}
    /\ annotationsOn

\* C16: a setDatasetDetails(uri, variable) call leaves the selection equal
\* to exactly (uri, variable), whatever it was before, issues no request and
\* leaves visibility, the overlays, the token and everything else unchanged.
C16_SetDatasetDetailsOnlyOverwrites ==
    [][lastSel'.via = "annotator" =>
         /\ datasetUri' = lastSel'.uri
         /\ datasetVar' = lastSel'.var
         /\ UNCHANGED <<sessionVars, toggleVars, formVars, postVars>>]_vars

\* C16: setDatasetDetails has just replaced an earlier, different selection
\* while annotations were on and a query was in flight.
C16_Witness ==
    /\ lastSel.via = "annotator"
    /\ datasetUri = lastSel.uri
    /\ annotationsOn
    /\ \E q \in inflight : q.uri # Undefined /\ q.uri # datasetUri

\* C17: a page-level selectDataset(datasetUri, variable, annotator, map)
\* call leaves the selection equal to (datasetUri, variable) and visibility
\* as it was; if annotations were on the overlays are cleared and exactly one
\* query is issued, built from the new selection; if they were off nothing
\* is issued.
C17_SelectDatasetRefreshesWhenOn ==
    [][lastSel'.via = "page" =>
         /\ datasetUri' = lastSel'.uri
         /\ datasetVar' = lastSel'.var
         /\ annotationsOn' = annotationsOn
         /\ IF annotationsOn
            THEN /\ annotationsGroup' = {}
                 /\ issued' = issued + 1
                 /\ inflight' = inflight \cup
                        {NewQuery(issued + 1, lastSel'.uri, lastSel'.var)}
            ELSE UNCHANGED <<issued, inflight, annotationsGroup>>]_vars

\* C17: selectDataset has just changed the selection while annotations were
\* on: the overlays are gone and the newest query is for the new selection.
C17_Witness ==
    /\ lastSel.via = "page"
    /\ annotationsOn
    /\ annotationsGroup = {}
    /\ \E q \in inflight : q.qid = issued /\ CurrentSelection(q)
    /\ \E q \in inflight : q.qid < issued /\ q.uri # Undefined
                              /\ ~CurrentSelection(q)

\* C18: no remote call is retried: a submit click sends at most one POST,
\* a toggle-on sends exactly one query, a failed query or submission sends
\* nothing in its place, and a failed submission (network failure or non-2xx
\* response) leaves visibility, the overlays, the dataset selection and the
\* token unchanged.
C18_NoRetryAndFailedSubmissionChangesNothing ==
    [][/\ formState' = "submitted" =>
              /\ postsSent' \in {postsSent, postsSent + 1}
              /\ Cardinality(posts' \ posts) = postsSent' - postsSent
       /\ (toggleCalls' = toggleCalls + 1 /\ annotationsOn') =>
              /\ issued' = issued + 1
              /\ Cardinality(inflight' \ inflight) = 1
       /\ lastPost' \in {"httpError", "netfail"} =>
              /\ postsSent' = postsSent
              /\ posts' \subseteq posts
              /\ UNCHANGED <<annotationsOn, annotationsGroup, datasetUri,
                             datasetVar, token>>]_vars

\* C19: for a ring of at least 3 points p_0..p_{n-1} the library encoder
\* _getLocationString writes a POLYGON of n + 1 pairs: the points in reverse
\* of input order, p_{n-1} .. p_0, then a closing pair; the first pair
\* written equals the last pair written, longitude and latitude both.
C19_LibraryRingReversedAndClosed ==
    ( /\ location.by = "_getLocationString"
      /\ layer.kind = "polyline"
      /\ Len(layer.latlngs) >= 3 )
    => LET n == Len(layer.latlngs)
           out == location.pairs
       IN /\ location.type = "POLYGON"
          /\ Len(out) = n + 1
          /\ \A i \in 1..n :
                 out[i] = Pair(layer.latlngs[n + 1 - i].lng,
                               layer.latlngs[n + 1 - i].lat)
          /\ out[1] = out[n + 1]

\* C19: the library encoder has encoded a ring of 3 points whose first and
\* last points differ in both coordinates.
C19_Witness ==
    /\ location.by = "_getLocationString"
    /\ layer.kind = "polyline"
    /\ Len(layer.latlngs) = 3
    /\ layer.latlngs[1].lng # layer.latlngs[3].lng
    /\ layer.latlngs[1].lat # layer.latlngs[3].lat
    /\ location.type = "POLYGON"

\* C20: neither geometry encoder writes a POLYGON text for a ring of fewer
\* than 3 points.
C20_NoPolygonForShortRing ==
    ( /\ location.by # "none"
      /\ layer.kind = "polyline"
      /\ Len(layer.latlngs) < 3 )
    => location.type # "POLYGON"

\* C21: for a layer that is neither a marker nor a polygon/rectangle the
\* geometry encoder ends with an exception, and no annotation document is
\* built whose geo:asWKT text is anything but a POINT or a POLYGON.
C21_UnrecognisedShapeFailsFast ==
    /\ ( location.by # "none" /\ layer.kind \notin {"marker", "polyline"} )
           => location.type = "TypeError"
    /\ ttl.built => ttl.asWKT.type \in {"POINT", "POLYGON"}

\* C22: a viewport query built under bounds (minx, miny, maxx, maxy) has as
\* its ring the five pairs (minx miny, minx maxy, maxx maxy, maxx miny,
\* minx miny) and ends with LIMIT 100; the two texts one call builds are
\* identical, and so are the texts of two calls made under the same bounds.
C22_ViewportQueryRingAndLimit ==
    /\ query.built =>
          LET minx == query.bounds._southWest.lng
              miny == query.bounds._southWest.lat
              maxx == query.bounds._northEast.lng
              maxy == query.bounds._northEast.lat
          IN /\ query.ring = <<<<minx, miny>>, <<minx, maxy>>, <<maxx, maxy>>,
                               <<maxx, miny>>, <<minx, miny>>>>
             /\ query.ring[1] = query.ring[5]
             /\ query.limit = 100
             /\ logged = query
    /\ (query.built /\ prevQuery.built /\ prevQuery.bounds = query.bounds)
          => prevQuery = query

\* C22: two calls in a row have built the query under the same bounds, whose
\* four coordinates are pairwise different.
C22_Witness ==
    /\ query.built
    /\ prevQuery.built
    /\ prevQuery.bounds = query.bounds
    /\ Cardinality({query.bounds._southWest.lng, query.bounds._southWest.lat,
                    query.bounds._northEast.lng, query.bounds._northEast.lat}) = 4
    /\ query.bounds = bounds

\* C23: in every state isAnnotationsOn() is true exactly when the number of
\* toggleAnnotations() calls made so far is odd, whatever responses,
\* failures, dataset changes, submissions and logouts came in between; the
\* step in which a query fails changes neither visibility nor the overlays.
C23_VisibilityIsParityOfToggleCalls ==
    /\ annotationsOn = (toggleCalls % 2 = 1)
    /\ [][/\ annotationsOn' = (toggleCalls' % 2 = 1)
          /\ (inflight' # inflight /\ inflight' \subseteq inflight
                  /\ lastResp' = NoResp) =>
                 UNCHANGED <<annotationsOn, annotationsGroup>>]_vars

\* C23: after three toggleAnnotations() calls, a dataset selection, a
\* logout and a settled submission, with both queries failed or answered
\* empty, annotations are on and no overlay is rendered.
C23_Witness ==
    /\ toggleCalls = 3
    /\ annotationsOn
    /\ issued = 2
    /\ inflight = {}
    /\ annotationsGroup = {}
    /\ datasetUri # Undefined
    /\ logoutCalls > 0
    /\ postsSent > 0
    /\ posts = {}

C25_DocumentBuiltAtSubmitTime ==
    [][postsSent' = postsSent + 1 =>
         /\ token # Undefined
         /\ posts' = posts \cup
                {NewPost(postsSent + 1, token, datasetUri, datasetVar)}
         /\ (drawnFor # NoDrawn /\ drawnFor # <<datasetUri, datasetVar>>) =>
                \A p \in posts' \ posts :
                    <<p.uri, p.var>> # drawnFor]_vars

\* C25: a shape was drawn under one dataset selection, setDatasetDetails
\* then made another, and the submit click has sent a document naming the
\* second.
C25_Witness ==
    /\ formState = "submitted"
    /\ drawnFor # NoDrawn
    /\ drawnFor[1] # Undefined
    /\ datasetUri # Undefined
    /\ drawnFor # <<datasetUri, datasetVar>>
    /\ \E p \in posts : /\ p.uri = datasetUri
                        /\ p.var = datasetVar
                        /\ p.token = token
                        /\ token # Undefined

\* C26: for a ring of at least 3 points p_0..p_{n-1}, getLocationString of
\* charme.js writes the points in reverse of input order followed by a
\* closing pair that equals the first pair written, longitude and latitude
\* both.
C26_PrototypeRingReversedAndClosed ==
    ( /\ location.by = "getLocationString"
      /\ layer.kind = "polyline"
      /\ Len(layer.latlngs) >= 3 )
    => LET n == Len(layer.latlngs)
           out == location.pairs
       IN /\ location.type = "POLYGON"
          /\ Len(out) = n + 1
          /\ \A i \in 1..n :
                 out[i] = Pair(layer.latlngs[n + 1 - i].lng,
                               layer.latlngs[n + 1 - i].lat)
          /\ out[n + 1][1] = out[1][1]
          /\ out[n + 1][2] = out[1][2]

====
